---- MODULE Spec2Model ----
(***************************************************************************)
(* Verification model of the backtesting tool: the account ledger          *)
(* (app/services/trading_service.py), the quantity sizer                   *)
(* (app/services/trade_quantity_calculator.py), the decision executor      *)
(* (app/services/ai_decision_agent.py), the backtest runner                *)
(* (app/executor/backtesting_processor.py), the task routes                *)
(* (app/api/routes/task.py) and the drawdown statistic                     *)
(* (app/utils/backtest_utils.py).                                          *)
(*                                                                         *)
(* Numbers.  A Decimal is an integer number of ticks.  The source          *)
(* quantizes to PRECISION_8 = 0.00000001 while its inputs (oracle          *)
(* quantity, bar price) carry arbitrary precision; here one quantum is     *)
(* SubUnits ticks, so the inputs can fall between two quanta and every     *)
(* quantize() of the source really rounds.  The value 1.0 is ONE ticks.    *)
(***************************************************************************)
EXTENDS Integers, Sequences, FiniteSets, TLC

\* ------------------------------------------------------------------------
\* Bounds of the model
\* ------------------------------------------------------------------------
SubUnits == 2

MaxDecisions == 3

\* ------------------------------------------------------------------------
\* Decimal arithmetic
\* ------------------------------------------------------------------------
PRECISION_8 == SubUnits

ONE == PRECISION_8

Abs(x) == IF x < 0 THEN -x ELSE x

Sgn(x) == IF x < 0 THEN -1 ELSE 1

Max(a, b) == IF a >= b THEN a ELSE b

Min(a, b) == IF a <= b THEN a ELSE b

\* n/d rounded to an integer, Decimal rounding modes (d > 0)
RoundDown(n, d) == Sgn(n) * (Abs(n) \div d)

RoundUp(n, d) == Sgn(n) * ((Abs(n) + d - 1) \div d)

RoundHalfUp(n, d) == Sgn(n) * ((2 * Abs(n) + d) \div (2 * d))

\* (n/d ticks).quantize(PRECISION_8, rounding=...), result in ticks
QuantizeHalfUp(n, d) == PRECISION_8 * RoundHalfUp(n, d * PRECISION_8)

QuantizeDown(n, d) == PRECISION_8 * RoundDown(n, d * PRECISION_8)

QuantizeUp(n, d) == PRECISION_8 * RoundUp(n, d * PRECISION_8)

\* ------------------------------------------------------------------------
\* Fees
\* ------------------------------------------------------------------------
TradeActions == {"BUY", "SELL", "SHORT_SELL", "COVER_SHORT", "HOLD"}

\* (quantity * price).quantize(0.00000001, ROUND_HALF_UP)
TradeAmount(quantity, price) == QuantizeHalfUp(quantity * price, ONE)

\* A rate is a pair <<numerator, denominator>>.
calculate_trading_fees(action, quantity, price, fee_config) ==
  LET trade_amount == TradeAmount(quantity, price)
      rate == IF action \in {"BUY", "COVER_SHORT"}
                THEN fee_config.commission_rate_buy
                ELSE fee_config.commission_rate_sell
      commission == Max(QuantizeHalfUp(trade_amount * rate[1], rate[2]),
                        fee_config.min_commission)
      tax == IF action \in {"SELL", "SHORT_SELL"}
               THEN QuantizeHalfUp(trade_amount * fee_config.tax_rate[1],
                                   fee_config.tax_rate[2])
               ELSE 0
  IN [commission |-> commission, tax |-> tax, total_fees |-> commission + tax]

NoFees == [commission |-> 0, tax |-> 0, total_fees |-> 0]

\* ------------------------------------------------------------------------
\* Ledger: update_account_for_trade
\* ------------------------------------------------------------------------
\* One lot of account.long_positions / account.short_positions.  The
\* "total_amount" and "margin_used" entries of a lot are price * quantity
\* and are read only for log output and for a margin figure the final
\* recomputation overwrites, so a lot is kept as {price, quantity}.
Lot(price, quantity) == [price |-> price, quantity |-> quantity]

RECURSIVE SumLots(_)
SumLots(positions) ==
  IF positions = <<>> THEN 0
  ELSE Head(positions).quantity + SumLots(Tail(positions))

\* FIFO close of `remaining` out of the lots: the loops at
\* trading_service.py 153-186 (long) and 493-526 (short).
RECURSIVE ClosePositionsFIFO(_, _)
ClosePositionsFIFO(positions, remaining) ==
  IF positions = <<>> THEN <<>>
  ELSE LET pos == Head(positions) IN
       IF remaining <= 0 THEN positions
       ELSE IF remaining >= pos.quantity
         THEN ClosePositionsFIFO(Tail(positions), remaining - pos.quantity)
         ELSE <<[pos EXCEPT !.quantity = pos.quantity - remaining]>>
                \o Tail(positions)

\* A ledger that counts a flat account as SHORT
PositionSideFlatShort(stock_quantity) ==
  IF stock_quantity <= 0 THEN "SHORT" ELSE "LONG"

\* account.position_side after the quantity is stored
PositionSide(stock_quantity) ==
  IF stock_quantity < 0 THEN "SHORT" ELSE "LONG"

\* A ledger that keeps a margin on a long position as well
MarginUsedAnySide(stock_quantity, stock_market_value) ==
  QuantizeHalfUp(Abs(stock_market_value), 1)

\* account.margin_used of the final recomputation
MarginUsedOf(stock_quantity, stock_market_value) ==
  IF stock_quantity < 0 THEN QuantizeHalfUp(Abs(stock_market_value), 1)
  ELSE 0

\* A ledger without the floor at 0 of the available balance
AvailableBalanceNoFloor(current_balance, stock_quantity, stock_market_value) ==
  IF stock_quantity < 0
    THEN QuantizeDown(current_balance - Abs(stock_market_value), 1)
    ELSE QuantizeDown(current_balance, 1)

\* account.available_balance of the final recomputation
AvailableBalanceOf(current_balance, stock_quantity, stock_market_value) ==
  LET raw == IF stock_quantity < 0
               THEN QuantizeDown(current_balance - Abs(stock_market_value), 1)
               ELSE QuantizeDown(current_balance, 1)
  IN IF raw < 0 THEN 0 ELSE raw

\* A ledger that forgets to charge the fees to the cash
new_balance_without_fees(action, current_balance, trade_amount, total_fees) ==
  IF action \in {"BUY", "COVER_SHORT"}
    THEN current_balance - trade_amount
    ELSE current_balance + trade_amount

\* new_balance of the four trade branches (lines 118, 138, 217, 240)
new_balance(action, current_balance, trade_amount, total_fees) ==
  IF action \in {"BUY", "COVER_SHORT"}
    THEN current_balance - trade_amount - total_fees
    ELSE current_balance + trade_amount - total_fees

\* new_quantity of the four trade branches (lines 120, 140, 219, 242)
new_quantity(action, stock_quantity, quantity) ==
  IF action \in {"BUY", "COVER_SHORT"}
    THEN stock_quantity + quantity
    ELSE stock_quantity - quantity

\* The common tail of update_account_for_trade (lines 276-349): store the
\* quantity, the side, the cash (not for HOLD), the price and every
\* derived field.
RecomputeAccount(account, action, balance, position, price) ==
  LET stock_quantity == QuantizeHalfUp(position, 1)
      current_balance == IF action # "HOLD"
                           THEN Max(0, QuantizeHalfUp(balance, 1))
                           ELSE account.current_balance
      stock_market_value == QuantizeHalfUp(stock_quantity * price, ONE)
  IN [account EXCEPT
        !.stock_quantity = stock_quantity,
        !.position_side = PositionSide(stock_quantity),
        !.current_balance = current_balance,
        !.stock_price = QuantizeHalfUp(price, 1),
        !.stock_market_value = stock_market_value,
        !.margin_used = MarginUsedOf(stock_quantity, stock_market_value),
        !.total_value = QuantizeHalfUp(current_balance + stock_market_value, 1),
        !.available_balance =
            AvailableBalanceOf(current_balance, stock_quantity, stock_market_value)]

\* update_account_for_trade(account, action, quantity, price, fees).
\* raised = TRUE stands for the ValueError of the source; the account of a
\* raised result is the half-updated object the caller rolls back.
update_account_for_trade(account, action, quantity, price, fees) ==
  LET total_fees == fees.total_fees
      trade_amount == TradeAmount(quantity, price)
      acc0 == [account EXCEPT !.total_fees = account.total_fees + total_fees]
  IN
  CASE action = "BUY" ->
         IF acc0.current_balance < trade_amount + total_fees
           THEN [raised |-> TRUE, account |-> acc0]
           ELSE [raised |-> FALSE,
                 account |->
                   RecomputeAccount(
                     [acc0 EXCEPT !.long_positions =
                        Append(acc0.long_positions, Lot(price, quantity))],
                     action,
                     new_balance(action, acc0.current_balance, trade_amount,
                                 total_fees),
                     new_quantity(action, acc0.stock_quantity, quantity), price)]
    [] action = "SELL" ->
         IF new_quantity(action, acc0.stock_quantity, quantity) < 0
           THEN [raised |-> TRUE, account |-> acc0]
           ELSE [raised |-> FALSE,
                 account |->
                   RecomputeAccount(
                     [acc0 EXCEPT !.long_positions =
                        ClosePositionsFIFO(acc0.long_positions, quantity)],
                     action,
                     new_balance(action, acc0.current_balance, trade_amount,
                                 total_fees),
                     new_quantity(action, acc0.stock_quantity, quantity), price)]
    [] action = "SHORT_SELL" ->
         LET acc1 == IF acc0.stock_quantity < 0
                       THEN [acc0 EXCEPT !.margin_used =
                               QuantizeUp(Abs(acc0.stock_quantity * price), ONE)]
                       ELSE acc0
             available_funds == acc1.available_balance - acc1.margin_used
             required_funds == trade_amount + total_fees
         IN IF available_funds < required_funds
              THEN [raised |-> TRUE, account |-> acc1]
              ELSE [raised |-> FALSE,
                    account |->
                      RecomputeAccount(
                        [acc1 EXCEPT !.short_positions =
                           Append(acc1.short_positions, Lot(price, quantity))],
                        action,
                        new_balance(action, acc1.current_balance, trade_amount,
                                    total_fees),
                        new_quantity(action, acc1.stock_quantity, quantity),
                        price)]
    [] action = "COVER_SHORT" ->
         IF acc0.stock_quantity + quantity > 0
           THEN [raised |-> TRUE, account |-> acc0]
           ELSE [raised |-> FALSE,
                 account |->
                   RecomputeAccount(
                     [acc0 EXCEPT !.short_positions =
                        ClosePositionsFIFO(acc0.short_positions, quantity)],
                     action,
                     new_balance(action, acc0.current_balance, trade_amount,
                                 total_fees),
                     new_quantity(action, acc0.stock_quantity, quantity), price)]
    [] OTHER ->
         [raised |-> FALSE,
          account |-> RecomputeAccount(acc0, "HOLD", acc0.current_balance,
                                       acc0.stock_quantity, price)]

\* ------------------------------------------------------------------------
\* Quantity sizer: TradeQuantityCalculator
\* ------------------------------------------------------------------------
\* Steps 1-5 shared by the direct buy and the direct short computations:
\* estimate with ROUND_UP, reserve the fee of the estimate plus one
\* min_commission, divide the rest with ROUND_DOWN, floor at 0.
MaxQtyForFunds(account, price, fee_action, current_available_funds) ==
  LET estimated_max_qty == QuantizeUp(current_available_funds * ONE, price)
      estimated_total_fees ==
        calculate_trading_fees(fee_action, estimated_max_qty, price, account).total_fees
      total_reserve_fees == estimated_total_fees + account.min_commission
      final_usable_funds == current_available_funds - total_reserve_fees
  IN QuantizeDown(final_usable_funds * ONE, price)

calculate_max_direct_buy_quantity(account, price, available_funds) ==
  Max(0, MaxQtyForFunds(account, price, "BUY", available_funds))

calculate_max_direct_sell_quantity(account) ==
  IF account.stock_quantity <= 0 THEN 0 ELSE account.stock_quantity

calculate_max_direct_short_sell_quantity(account, price) ==
  Max(0, MaxQtyForFunds(account, price, "SHORT_SELL",
                        account.available_balance - account.margin_used))

calculate_max_direct_cover_short_quantity(account) ==
  IF account.stock_quantity < 0 THEN Abs(account.stock_quantity) ELSE 0

calculate_max_reverse_short_quantity(account, price) ==
  IF account.stock_quantity <= 0
    THEN calculate_max_direct_short_sell_quantity(account, price)
    ELSE
      LET long_quantity == account.stock_quantity
          close_long_total_fees ==
            calculate_trading_fees("SELL", long_quantity, price, account).total_fees
          close_long_proceeds ==
            QuantizeDown(long_quantity * price - close_long_total_fees * ONE, ONE)
          usable_for_short == account.available_balance + close_long_proceeds
      IN Max(0, MaxQtyForFunds(account, price, "SHORT_SELL", usable_for_short)
                  + account.stock_quantity)

calculate_max_reverse_buy_quantity(account, price) ==
  IF account.stock_quantity >= 0
    THEN calculate_max_direct_buy_quantity(account, price, account.available_balance)
    ELSE
      LET short_quantity == Abs(account.stock_quantity)
          close_short_total_fees ==
            calculate_trading_fees("COVER_SHORT", short_quantity, price, account).total_fees
          close_short_cost ==
            QuantizeUp(short_quantity * price + close_short_total_fees * ONE, ONE)
          available_after_close ==
            QuantizeDown(account.current_balance - close_short_cost, 1)
          usable_for_buy ==
            QuantizeDown(available_after_close - account.min_commission, 1)
      IN IF account.current_balance < close_short_cost THEN 0
         ELSE Max(0, short_quantity
                       + calculate_max_direct_buy_quantity(account, price, usable_for_buy))

calculate_max_trade_quantity(account, price, base_action) ==
  IF base_action \in {"SHORT_SELL", "SELL"}
    THEN calculate_max_reverse_short_quantity(account, price)
    ELSE calculate_max_reverse_buy_quantity(account, price)

\* ------------------------------------------------------------------------
\* Trade executor
\* ------------------------------------------------------------------------
\* validate_trade without its comparison with the sizer maximum
validate_trade_without_maximum(account, action, quantity, price) ==
  IF action = "HOLD" THEN TRUE
  ELSE IF price <= 0 THEN FALSE
  ELSE quantity > 0

\* trading_service.validate_trade
validate_trade(account, action, quantity, price) ==
  IF action = "HOLD" THEN TRUE
  ELSE IF price <= 0 THEN FALSE
  ELSE IF quantity <= 0 THEN FALSE
  ELSE quantity <= calculate_max_trade_quantity(account, price, action)

\* A mapping that opens the opposite position before it closes the old one
_map_decision_to_actions_opening_first(current_qty, llm_act, qty) ==
  IF llm_act = "HOLD" THEN << <<"HOLD", 0>> >>
  ELSE IF current_qty > 0 THEN
    IF llm_act \in {"BUY", "COVER_SHORT"} THEN << <<"BUY", qty>> >>
    ELSE IF qty > current_qty
      THEN << <<"SHORT_SELL", qty - current_qty>>, <<"SELL", current_qty>> >>
      ELSE << <<"SELL", qty>> >>
  ELSE IF current_qty < 0 THEN
    IF llm_act \in {"BUY", "COVER_SHORT"}
      THEN IF qty > Abs(current_qty)
             THEN << <<"BUY", qty - Abs(current_qty)>>,
                     <<"COVER_SHORT", Abs(current_qty)>> >>
             ELSE << <<"COVER_SHORT", qty>> >>
      ELSE << <<"SHORT_SELL", qty>> >>
  ELSE
    IF llm_act \in {"BUY", "SHORT_SELL"} THEN << <<llm_act, qty>> >>
    ELSE << <<"HOLD", 0>> >>

\* _map_decision_to_actions: the legs <<action, quantity>> of one intent
_map_decision_to_actions(current_qty, llm_act, qty) ==
  IF llm_act = "HOLD" THEN << <<"HOLD", 0>> >>
  ELSE IF current_qty > 0 THEN
    IF llm_act \in {"BUY", "COVER_SHORT"} THEN << <<"BUY", qty>> >>
    ELSE LET sell_qty == Min(qty, current_qty)
             short_qty == qty - sell_qty
         IN IF short_qty > 0
              THEN << <<"SELL", sell_qty>>, <<"SHORT_SELL", short_qty>> >>
              ELSE << <<"SELL", sell_qty>> >>
  ELSE IF current_qty < 0 THEN
    IF llm_act \in {"BUY", "COVER_SHORT"}
      THEN LET cover_qty == Min(qty, Abs(current_qty))
               buy_qty == qty - cover_qty
           IN IF buy_qty > 0
                THEN << <<"COVER_SHORT", cover_qty>>, <<"BUY", buy_qty>> >>
                ELSE << <<"COVER_SHORT", cover_qty>> >>
      ELSE << <<"SHORT_SELL", qty>> >>
  ELSE
    IF llm_act \in {"BUY", "SHORT_SELL"} THEN << <<llm_act, qty>> >>
    ELSE << <<"HOLD", 0>> >>

\* One ledger operation as it happened: the call, the account before it and
\* the account the session holds after it (after the rollback, when raised).
LedgerOp(action, quantity, price, fees, pre, raised, post) ==
  [action |-> action, quantity |-> quantity, price |-> price,
   total_fees |-> fees.total_fees, pre |-> pre, raised |-> raised, post |-> post]

\* save_trade_record: the TradeRecord row of an executed leg
TradeRecord(account, action, quantity, price, fees, trade_time) ==
  [trade_action |-> action,
   quantity |-> QuantizeHalfUp(quantity, 1),
   price |-> QuantizeHalfUp(price, 1),
   total_amount |-> TradeAmount(quantity, price),
   total_fees |-> fees.total_fees,
   trade_time |-> trade_time,
   total_value_after |-> account.total_value,
   remaining_quantity_after |-> account.stock_quantity]

\* execute_trade: fees, ledger update, trade record, commit; any exception
\* rolls the session back to the last commit and reports success = FALSE.
execute_trade(account, action, quantity, price, trade_time) ==
  LET fees == calculate_trading_fees(action, quantity, price, account)
      res == update_account_for_trade(account, action, quantity, price, fees)
  IN IF res.raised
       THEN [success |-> FALSE, account |-> account, trades |-> <<>>,
             op |-> LedgerOp(action, quantity, price, fees, account, TRUE, account)]
       ELSE [success |-> TRUE, account |-> res.account,
             trades |-> <<TradeRecord(res.account, action, quantity, price,
                                     fees, trade_time)>>,
             op |-> LedgerOp(action, quantity, price, fees, account, FALSE,
                             res.account)]

\* The HOLD refresh: update_account_for_trade(account, HOLD, 0, price, session)
HoldUpdate(account, price) ==
  update_account_for_trade(account, "HOLD", 0, price, NoFees).account

HoldOp(account, price) ==
  LedgerOp("HOLD", 0, price, NoFees, account, FALSE, HoldUpdate(account, price))

\* The loop over actual_actions in execute_decision (lines 308-347): each
\* leg commits on its own; the first failing leg ends the loop.
RECURSIVE ExecuteActions(_, _, _, _)
ExecuteActions(account, actions, price, trade_time) ==
  IF actions = <<>> THEN [account |-> account, trades |-> <<>>, ops |-> <<>>,
                          success |-> TRUE]
  ELSE LET leg == Head(actions) IN
    IF leg[1] = "HOLD"
      THEN LET rest == ExecuteActions(HoldUpdate(account, price), Tail(actions),
                                      price, trade_time)
           IN [rest EXCEPT !.ops = <<HoldOp(account, price)>> \o rest.ops]
      ELSE LET r == execute_trade(account, leg[1], leg[2], price, trade_time)
           IN IF ~r.success
                THEN [account |-> r.account, trades |-> <<>>, ops |-> <<r.op>>,
                      success |-> FALSE]
                ELSE LET rest == ExecuteActions(r.account, Tail(actions), price,
                                                trade_time)
                     IN [rest EXCEPT !.trades = r.trades \o rest.trades,
                                     !.ops = <<r.op>> \o rest.ops]

\* The oracle's answer to one call: the agent raises (LLM or JSON failure),
\* or it returns an intent and a quantity.
OracleRaise == [kind |-> "raise", action |-> "HOLD", quantity |-> 0]

OracleSays(action, quantity) ==
  [kind |-> "ok", action |-> action, quantity |-> quantity]

\* execute_decision.  result is what the caller's tuple unpacking sees:
\*   "decision"  a (dict, decision_id) pair, also for an agent failure
\*               (lines 369-383) and for a failed leg (line 347);
\*   "invalid"   the bare dict of a failed validation (line 233), which
\*               unpacks into the two strings "success" and "error".
\* The finally clause refreshes the account with a HOLD in every case.
execute_decision(account, response, price, trade_time) ==
  IF response.kind = "raise"
    THEN [result |-> "decision", account |-> HoldUpdate(account, price),
          trades |-> <<>>, ops |-> <<HoldOp(account, price)>>]
  ELSE IF ~validate_trade(account, response.action, response.quantity, price)
    THEN [result |-> "invalid", account |-> HoldUpdate(account, price),
          trades |-> <<>>, ops |-> <<HoldOp(account, price)>>]
  ELSE
    LET actual_actions ==
          _map_decision_to_actions(account.stock_quantity, response.action,
                                   response.quantity)
        done == ExecuteActions(account, actual_actions, price, trade_time)
    IN [result |-> "decision",
        account |-> HoldUpdate(done.account, price),
        trades |-> done.trades,
        ops |-> done.ops \o <<HoldOp(done.account, price)>>]

\* ------------------------------------------------------------------------
\* Statistics: BacktestUtils.calculate_max_drawdown
\* ------------------------------------------------------------------------
\* a/b < c/d for a, c >= 0 and b, d > 0: the comparison of two quotients
\* (drawdown > max_dd), by integer parts and then reciprocal remainders.
RECURSIVE RatioLess(_, _, _, _)
RatioLess(a, b, c, d) ==
  LET qa == a \div b
      qc == c \div d
      ra == a % b
      rc == c % d
  IN IF qa # qc THEN qa < qc
     ELSE IF rc = 0 THEN FALSE
     ELSE IF ra = 0 THEN TRUE
     ELSE RatioLess(d, rc, b, ra)

\* The first `scale` fractional digits of n/d by long division:
\* q = floor(n * 10^scale / d) and the remainder r (n >= 0, d > 0).
RECURSIVE DecimalShift(_, _, _)
DecimalShift(n, d, scale) ==
  IF scale = 0 THEN [q |-> n \div d, r |-> n % d]
  ELSE LET prev == DecimalShift(n, d, scale - 1)
       IN [q |-> prev.q * 10 + (prev.r * 10) \div d, r |-> (prev.r * 10) % d]

\* to_dec(n/d, scale): Decimal(str(value)).quantize(10^-scale, ROUND_HALF_UP),
\* as an integer number of 10^-scale
to_dec(n, d, scale) ==
  LET s == DecimalShift(n, d, scale)
  IN IF 2 * s.r >= d THEN s.q + 1 ELSE s.q

\* sorted(snapshots, key=lambda x: x.timestamp): a stable insertion sort
RECURSIVE InsertByTimestamp(_, _)
InsertByTimestamp(sorted, s) ==
  IF sorted = <<>> THEN <<s>>
  ELSE IF Head(sorted).timestamp <= s.timestamp
    THEN <<Head(sorted)>> \o InsertByTimestamp(Tail(sorted), s)
    ELSE <<s>> \o sorted

RECURSIVE snapshots_sorted(_)
snapshots_sorted(snaps) ==
  IF snaps = <<>> THEN <<>>
  ELSE InsertByTimestamp(snapshots_sorted(SubSeq(snaps, 1, Len(snaps) - 1)),
                         snaps[Len(snaps)])

\* A value series that starts at the first snapshot
nav_values_without_initial(sorted, initial_balance) ==
  [k \in 1..Len(sorted) |-> sorted[k].total_value]

\* nav_values: the initial balance, then the snapshots' total values
nav_values(sorted, initial_balance) ==
  <<initial_balance>> \o [k \in 1..Len(sorted) |-> sorted[k].total_value]

\* The loop over nav_values: the running peak and the largest drawdown so
\* far, kept as the quotient num/den (0/1 at the start).
RECURSIVE DrawdownLoop(_, _, _, _)
DrawdownLoop(values, peak, num, den) ==
  IF values = <<>> THEN [num |-> num, den |-> den]
  ELSE LET value == Head(values)
           peak1 == IF value > peak THEN value ELSE peak
       IN IF peak1 > 0 /\ RatioLess(num, den, peak1 - value, peak1)
            THEN DrawdownLoop(Tail(values), peak1, peak1 - value, peak1)
            ELSE DrawdownLoop(Tail(values), peak1, num, den)

\* calculate_max_drawdown(snapshots, initial_balance), in millionths
calculate_max_drawdown(snaps, initial_balance) ==
  IF snaps = <<>> THEN 0
  ELSE LET values == nav_values(snapshots_sorted(snaps), initial_balance)
           max_dd == DrawdownLoop(values, values[1], 0, 1)
       IN to_dec(max_dd.num, max_dd.den, 6)

\* ------------------------------------------------------------------------
\* State
\* ------------------------------------------------------------------------
VARIABLES
  account,     \* the VirtualAccount row
  trades,      \* the TradeRecord rows, in insertion order
  lastOps,     \* ledger operations of the latest execute_decision call
  prevOps,     \* ledger operations of the call before it
  lastQuery,   \* the latest oracle answer, the price it was executed at and
               \* the sizer maximum for its action at that moment
  allMax,      \* every oracle quantity so far was the sizer maximum
  decisions,   \* number of execute_decision calls / resets so far
  market,      \* prices and oracle quantities the environment draws from
  task,        \* the Task row: status, processed_items, total_items
  threads,     \* the runner threads: position in BacktestProcessor.execute
  script,      \* the bars of the task: price and oracle answer per timestamp
  history,     \* what has happened: API requests served, oracle failures
  snapshots,   \* AccountSnapshot rows of the task
  stats,       \* initial balance and the computed max_drawdown
  registry     \* the tasks of the server: each one's account and status

bookVars == <<account, trades>>

probeVars == <<lastOps, prevOps, lastQuery, allMax, decisions, market>>

runVars == <<task, threads, script, history>>

statVars == <<snapshots, stats>>

vars == <<account, trades, lastOps, prevOps, lastQuery, allMax, decisions,
          market, task, threads, script, history, snapshots, stats,
          registry>>

\* Fee schedules (create_local_decision_task stores them on the account)
ZeroFees ==
  [commission_rate_buy |-> <<0, 1>>, commission_rate_sell |-> <<0, 1>>,
   tax_rate |-> <<0, 1>>, min_commission |-> 0]

PercentFees ==
  [commission_rate_buy |-> <<1, 10>>, commission_rate_sell |-> <<1, 10>>,
   tax_rate |-> <<1, 10>>, min_commission |-> ONE]

PerMilleFees ==
  [commission_rate_buy |-> <<1, 1000>>, commission_rate_sell |-> <<1, 1000>>,
   tax_rate |-> <<0, 1>>, min_commission |-> 5 * ONE]

\* The account as create_task and create_local_decision_task leave it
NewAccount(initial_balance, fees) ==
  [initial_balance |-> initial_balance,
   current_balance |-> initial_balance,
   available_balance |-> initial_balance,
   stock_quantity |-> 0,
   stock_price |-> 0,
   stock_market_value |-> 0,
   total_value |-> initial_balance,
   position_side |-> "LONG",
   margin_used |-> 0,
   long_positions |-> <<>>,
   short_positions |-> <<>>,
   total_fees |-> 0,
   commission_rate_buy |-> fees.commission_rate_buy,
   commission_rate_sell |-> fees.commission_rate_sell,
   tax_rate |-> fees.tax_rate,
   min_commission |-> fees.min_commission]

\* BacktestProcessor._reset_account
_reset_account(acc) ==
  [acc EXCEPT
     !.current_balance = acc.initial_balance,
     !.available_balance = acc.initial_balance,
     !.stock_quantity = 0,
     !.stock_market_value = 0,
     !.total_value = acc.initial_balance,
     !.position_side = "LONG",
     !.margin_used = 0,
     !.short_positions = <<>>,
     !.long_positions = <<>>]

\* Values of the variables a specification does not use
NoQuery == [kind |-> "none", action |-> "HOLD", quantity |-> 0, price |-> 0, max |-> 0]

ProbeIdle ==
  /\ lastOps = <<>>
  /\ prevOps = <<>>
  /\ lastQuery = NoQuery
  /\ allMax = TRUE
  /\ decisions = 0
  /\ market = [balance |-> 0, fees |-> ZeroFees, prices |-> {}, quantities |-> {}]

NoHistory ==
  [requests |-> 0, starts |-> 0, pauses |-> 0, resumes |-> 0, stops |-> 0,
   failed |-> {}, executed |-> <<>>, lost |-> {}]

RunnerIdle ==
  /\ task = [status |-> "PENDING", processed_items |-> 0, total_items |-> 0]
  /\ threads = <<>>
  /\ script = <<>>
  /\ history = NoHistory

StatsIdle ==
  /\ snapshots = <<>>
  /\ stats = [initial_balance |-> 0, computed |-> FALSE, max_drawdown |-> 0]

RegistryIdle == registry = <<>>

\* ------------------------------------------------------------------------
\* Specification of the ledger: one account driven by oracle answers
\* ------------------------------------------------------------------------
\* The environments of the ledger specification: a starting balance, a fee
\* schedule, the bar prices and the quantities an oracle may answer besides
\* the sizer maximum.  Prices and quantities are not multiples of the
\* quantum in general.  The third and the fourth are the sample scenarios
\* of the specification's testable properties; the fifth has a bar without
\* a price and answers without a positive quantity; in the last the
\* minimum commission is large against the account and the price falls to
\* a tenth.
Markets ==
  { [balance |-> 8 * ONE, fees |-> ZeroFees,
     prices |-> {ONE, ONE + 1}, quantities |-> {ONE + 1, 2 * ONE}],
    [balance |-> 12 * ONE, fees |-> PercentFees,
     prices |-> {ONE, 2 * ONE + 1}, quantities |-> {2 * ONE}],
    [balance |-> 100000 * ONE, fees |-> ZeroFees,
     prices |-> {100 * ONE}, quantities |-> {ONE}],
    [balance |-> 100000 * ONE, fees |-> PerMilleFees,
     prices |-> {50000 * ONE, 55000 * ONE}, quantities |-> {ONE}],
    [balance |-> 8 * ONE, fees |-> PercentFees,
     prices |-> {0, ONE}, quantities |-> {-ONE, 0, 2 * ONE}],
    [balance |-> 100 * ONE, fees |-> PerMilleFees,
     prices |-> {ONE, 10 * ONE}, quantities |-> {ONE}] }

\* The sizer maximum the oracle is told for an action; the sizer is not
\* asked at a bar without a positive price
SizerMaximum(acc, price, action) ==
  IF action = "HOLD" \/ price <= 0 THEN 0
  ELSE calculate_max_trade_quantity(acc, price, action)

LedgerInit ==
  /\ market \in Markets
  /\ account = NewAccount(market.balance, market.fees)
  /\ trades = <<>>
  /\ lastOps = <<>>
  /\ prevOps = <<>>
  /\ lastQuery = NoQuery
  /\ allMax = TRUE
  /\ decisions = 0
  /\ RunnerIdle
  /\ StatsIdle
  /\ RegistryIdle

\* One oracle answer executed at one bar price
LedgerDecision(action, quantity, price) ==
  /\ decisions < MaxDecisions
  /\ \E maxq \in {SizerMaximum(account, price, action)},
        r \in {execute_decision(account, OracleSays(action, quantity), price,
                                decisions)} :
        /\ account' = r.account
        /\ trades' = trades \o r.trades
        /\ prevOps' = lastOps
        /\ lastOps' = r.ops
        /\ lastQuery' = [kind |-> "ok", action |-> action, quantity |-> quantity,
                         price |-> price, max |-> maxq]
        /\ allMax' = (allMax /\ (action = "HOLD" \/ quantity = maxq))
  /\ decisions' = decisions + 1
  /\ UNCHANGED <<market, runVars, statVars, registry>>

\* A restart of the task: _cleanup_task_data and _reset_account
LedgerRestart ==
  /\ decisions > 0
  /\ decisions < MaxDecisions
  /\ account' = _reset_account(account)
  /\ trades' = <<>>
  /\ lastOps' = <<>>
  /\ prevOps' = <<>>
  /\ lastQuery' = NoQuery
  /\ allMax' = TRUE
  /\ decisions' = decisions + 1
  /\ UNCHANGED <<market, runVars, statVars, registry>>

LedgerNext ==
  \/ \E price \in market.prices :
       \E action \in TradeActions :
         \E quantity \in market.quantities
                           \cup {SizerMaximum(account, price, action)} :
           LedgerDecision(action, IF action = "HOLD" THEN 0 ELSE quantity, price)
  \/ LedgerRestart

SpecLedger == LedgerInit /\ [][LedgerNext]_vars

\* ------------------------------------------------------------------------
\* Specification of the ledger with a failing database commit
\* ------------------------------------------------------------------------
\* A decision of two legs whose second leg is lost: the first leg is
\* executed and committed by its own execute_trade call; in the second call
\* the commit of save_trade_record fails, its except clause rolls the
\* session back to the state after the first leg and swallows the
\* exception.  The HOLD refresh of the finally clause follows.
SecondLegNotSaved(action, quantity, price) ==
  /\ decisions < MaxDecisions
  /\ price > 0
  /\ validate_trade(account, action, quantity, price)
  /\ \E actual_actions \in
         {_map_decision_to_actions(account.stock_quantity, action, quantity)} :
       /\ Len(actual_actions) = 2
       /\ \E first \in {execute_trade(account, actual_actions[1][1],
                                       actual_actions[1][2], price, decisions)} :
            /\ first.success
            /\ \E second \in {execute_trade(first.account, actual_actions[2][1],
                                             actual_actions[2][2], price,
                                             decisions)} :
                 /\ second.success
                 /\ account' = HoldUpdate(first.account, price)
                 /\ trades' = trades \o first.trades
                 /\ lastOps' = <<first.op,
                                 [second.op EXCEPT !.raised = TRUE,
                                                   !.post = first.account],
                                 HoldOp(first.account, price)>>
  /\ prevOps' = lastOps
  /\ lastQuery' = [kind |-> "ok", action |-> action, quantity |-> quantity,
                   price |-> price,
                   max |-> SizerMaximum(account, price, action)]
  /\ allMax' = FALSE
  /\ decisions' = decisions + 1
  /\ UNCHANGED <<market, runVars, statVars, registry>>

LedgerFaultNext ==
  \/ LedgerNext
  \/ \E price \in market.prices :
       \E action \in TradeActions :
         \E quantity \in market.quantities
                           \cup {SizerMaximum(account, price, action)} :
           SecondLegNotSaved(action, quantity, price)

SpecLedgerFault == LedgerInit /\ [][LedgerFaultNext]_vars

\* ------------------------------------------------------------------------
\* Specification of the trade executor: execute_trade called leg by leg
\* ------------------------------------------------------------------------
\* One call of execute_trade with a positive quantity at a positive price,
\* whatever the position of the account
DirectTrade(action, quantity, price) ==
  /\ decisions < MaxDecisions
  /\ quantity > 0 /\ price > 0
  /\ \E r \in {execute_trade(account, action, quantity, price, decisions)} :
       /\ account' = r.account
       /\ trades' = trades \o r.trades
       /\ lastOps' = <<r.op>>
  /\ prevOps' = lastOps
  /\ lastQuery' = [kind |-> "direct", action |-> action, quantity |-> quantity,
                   price |-> price, max |-> 0]
  /\ allMax' = FALSE
  /\ decisions' = decisions + 1
  /\ UNCHANGED <<market, runVars, statVars, registry>>

\* The HOLD refresh at a bar price
DirectHold(price) ==
  /\ decisions < MaxDecisions
  /\ price > 0
  /\ account' = HoldUpdate(account, price)
  /\ lastOps' = <<HoldOp(account, price)>>
  /\ prevOps' = lastOps
  /\ lastQuery' = [kind |-> "direct", action |-> "HOLD", quantity |-> 0,
                   price |-> price, max |-> 0]
  /\ allMax' = FALSE
  /\ decisions' = decisions + 1
  /\ UNCHANGED <<trades, market, runVars, statVars, registry>>

\* Quantities of the legs: those of the market, the size of the position
\* and one quantum more
LegQuantities ==
  market.quantities
    \cup {Abs(account.stock_quantity), Abs(account.stock_quantity) + 1}

TradeNext ==
  \/ \E price \in market.prices :
       \E action \in TradeActions \ {"HOLD"} :
         \E quantity \in LegQuantities : DirectTrade(action, quantity, price)
  \/ \E price \in market.prices : DirectHold(price)

SpecTrade == LedgerInit /\ [][TradeNext]_vars

\* The accounts a ledger operation of the latest decision left behind, and
\* the account as it is now
AccountsSeen == {account} \cup {lastOps[k].post : k \in DOMAIN lastOps}

\* The accepted trades (not HOLD, not raised) among some ledger operations
AcceptedTrades(ops) ==
  {k \in DOMAIN ops : ops[k].action # "HOLD" /\ ~ops[k].raised}

\* C2: from a freshly reset account, as long as every trade intent carried
\* exactly the quantity the sizer returns as the maximum for that action,
\* every account state has cash >= 0 and available cash >= 0.
C2_MaxQuantityKeepsCashNonNegative ==
  allMax => \A a \in AccountsSeen :
              a.current_balance >= 0 /\ a.available_balance >= 0

\* A short opened at the sizer maximum whose market value has since grown
\* past the cash: the case where the available cash would be negative.
C2_Witness ==
  /\ allMax
  /\ Len(trades) >= 1
  /\ trades[1].trade_action = "SHORT_SELL"
  /\ account.stock_quantity < 0
  /\ account.current_balance < Abs(account.stock_market_value)
  /\ account.available_balance = 0

SideMatchesQuantity(a) ==
  /\ a.position_side \in {"LONG", "SHORT"}
  /\ (a.position_side = "SHORT") <=> (a.stock_quantity < 0)

\* C3: after every ledger operation (BUY, SELL, SHORT_SELL, COVER_SHORT,
\* HOLD) and after an account reset the stored side is SHORT exactly when
\* quantity < 0, and LONG when quantity >= 0 (flat counts as LONG).
C3_SideFollowsQuantity ==
  \A a \in AccountsSeen : SideMatchesQuantity(a)

\* A reverse trade through zero: the SELL leg leaves the account flat and
\* LONG, the SHORT_SELL leg leaves it SHORT.
C3_Witness ==
  /\ Len(lastOps) = 3
  /\ lastOps[1].action = "SELL" /\ ~lastOps[1].raised
  /\ lastOps[1].post.stock_quantity = 0
  /\ lastOps[1].post.position_side = "LONG"
  /\ lastOps[2].action = "SHORT_SELL" /\ ~lastOps[2].raised
  /\ lastOps[2].post.stock_quantity < 0
  /\ lastOps[2].post.position_side = "SHORT"

\* The derived fields of account a agree with its cash, its quantity and
\* the price p; the market value is quantity * p at the ledger's precision
\* (a whole number of quanta, at most half a quantum away).
DerivedFieldsConsistent(a, p) ==
  /\ a.stock_market_value % PRECISION_8 = 0
  /\ 2 * Abs(a.stock_market_value * ONE - a.stock_quantity * p)
       <= PRECISION_8 * ONE
  /\ a.margin_used = IF a.stock_quantity < 0
                       THEN Abs(a.stock_market_value) ELSE 0
  /\ a.available_balance =
       IF a.stock_quantity < 0
         THEN Max(0, a.current_balance - Abs(a.stock_market_value))
         ELSE a.current_balance
  /\ a.total_value = a.current_balance + a.stock_market_value

\* C4: after every ledger operation at price p: marketValue = quantity * p,
\* marginUsed = |marketValue| if quantity < 0 else 0, availableCash =
\* max(0, cash - |marketValue|) if quantity < 0 else cash, totalValue =
\* cash + marketValue; and a single SHORT_SELL of 1 @ 100 with zero fees on
\* a flat account of 100,000 gives marginUsed = 100 and availableCash =
\* cash - 100.
C4_DerivedFieldsRecomputed ==
  /\ \A k \in DOMAIN lastOps :
       ~lastOps[k].raised =>
         DerivedFieldsConsistent(lastOps[k].post, lastOps[k].price)
  /\ (/\ market.balance = 100000 * ONE
      /\ market.fees = ZeroFees
      /\ decisions = 1
      /\ lastQuery.action = "SHORT_SELL"
      /\ lastQuery.quantity = ONE
      /\ lastQuery.price = 100 * ONE)
       => /\ account.margin_used = 100 * ONE
          /\ account.current_balance = 100100 * ONE
          /\ account.available_balance = account.current_balance - 100 * ONE

\* The sample: SHORT_SELL 1 @ 100 executed on the flat 100,000 account.
C4_Witness ==
  /\ market.balance = 100000 * ONE
  /\ market.fees = ZeroFees
  /\ decisions = 1
  /\ Len(trades) = 1
  /\ trades[1].trade_action = "SHORT_SELL"
  /\ trades[1].quantity = ONE
  /\ account.stock_quantity = -ONE
  /\ account.margin_used = 100 * ONE

\* C5: in every reachable account state the long lots sum to quantity when
\* quantity > 0 and the short lots sum to |quantity| when quantity < 0.
C5_LotsSumToQuantity ==
  \A a \in AccountsSeen :
    /\ a.stock_quantity > 0 => SumLots(a.long_positions) = a.stock_quantity
    /\ a.stock_quantity < 0 =>
         SumLots(a.short_positions) = Abs(a.stock_quantity)

\* C6: with a zero fee schedule an accepted BUY of q at p followed
\* immediately by a SELL of q at p returns cash and quantity exactly to
\* their values before the BUY.
C6_ZeroFeeRoundTrip ==
  (/\ market.fees = ZeroFees
   /\ Len(prevOps) = 2 /\ Len(lastOps) = 2
   /\ prevOps[1].action = "BUY" /\ ~prevOps[1].raised
   /\ lastOps[1].action = "SELL" /\ ~lastOps[1].raised
   /\ lastOps[1].quantity = prevOps[1].quantity
   /\ lastOps[1].price = prevOps[1].price)
    => /\ lastOps[1].post.current_balance = prevOps[1].pre.current_balance
       /\ lastOps[1].post.stock_quantity = prevOps[1].pre.stock_quantity

\* The cash half of the round trip alone
C6_CashRestored ==
  (/\ market.fees = ZeroFees
   /\ Len(prevOps) = 2 /\ Len(lastOps) = 2
   /\ prevOps[1].action = "BUY" /\ ~prevOps[1].raised
   /\ lastOps[1].action = "SELL" /\ ~lastOps[1].raised
   /\ lastOps[1].quantity = prevOps[1].quantity
   /\ lastOps[1].price = prevOps[1].price)
    => lastOps[1].post.current_balance = prevOps[1].pre.current_balance

\* +1 for the actions that buy, -1 for the actions that sell
BuySign(action) == IF action \in {"BUY", "COVER_SHORT"} THEN 1 ELSE -1

\* The update of one accepted trade by the stated formulas: the cash moves
\* by qty * price (at the ledger's precision) and the fees, the quantity by
\* qty.
TradeFormulasHold(op) ==
  /\ 2 * Abs((op.post.current_balance - op.pre.current_balance + op.total_fees)
               * ONE + BuySign(op.action) * op.quantity * op.price)
       <= PRECISION_8 * ONE
  /\ op.post.stock_quantity
       = op.pre.stock_quantity + BuySign(op.action) * op.quantity

\* C8: every accepted trade sets cash' = cash -/+ qty * price - fees and
\* quantity' = quantity +/- qty (BUY, COVER_SHORT / SELL, SHORT_SELL); from
\* 100,000 flat, BUY 1 @ 50,000 with fee 50 gives cash 49,950 and quantity
\* 1, then SELL 1 @ 55,000 with fee 55 gives cash 104,895, quantity 0 and
\* totalValue 104,895.
C8_TradeFormulas ==
  /\ \A k \in AcceptedTrades(lastOps) : TradeFormulasHold(lastOps[k])
  /\ (/\ market.fees = PerMilleFees
      /\ decisions = 2
      /\ Len(trades) = 2
      /\ trades[1].trade_action = "BUY" /\ trades[1].quantity = ONE
      /\ trades[1].price = 50000 * ONE
      /\ trades[2].trade_action = "SELL" /\ trades[2].quantity = ONE
      /\ trades[2].price = 55000 * ONE)
       => /\ trades[1].total_fees = 50 * ONE
          /\ prevOps[1].post.current_balance = 49950 * ONE
          /\ prevOps[1].post.stock_quantity = ONE
          /\ trades[2].total_fees = 55 * ONE
          /\ account.current_balance = 104895 * ONE
          /\ account.stock_quantity = 0
          /\ account.total_value = 104895 * ONE

\* The cash formula and the sample scenario of C8 alone
C8_CashFormula ==
  /\ \A k \in AcceptedTrades(lastOps) :
       2 * Abs((lastOps[k].post.current_balance - lastOps[k].pre.current_balance
                  + lastOps[k].total_fees) * ONE
               + BuySign(lastOps[k].action) * lastOps[k].quantity * lastOps[k].price)
         <= PRECISION_8 * ONE
  /\ (/\ market.fees = PerMilleFees
      /\ decisions = 2
      /\ Len(trades) = 2
      /\ trades[1].trade_action = "BUY" /\ trades[1].quantity = ONE
      /\ trades[1].price = 50000 * ONE
      /\ trades[2].trade_action = "SELL" /\ trades[2].quantity = ONE
      /\ trades[2].price = 55000 * ONE)
       => /\ prevOps[1].post.current_balance = 49950 * ONE
          /\ account.current_balance = 104895 * ONE
          /\ account.total_value = 104895 * ONE

\* ------------------------------------------------------------------------
\* Specification of the statistics: snapshots arrive, the drawdown is computed
\* ------------------------------------------------------------------------
MaxSnapshots == 3

\* Total values a snapshot may carry (a short position can drive the total
\* value below zero) and initial balances of an account
StatValues ==
  {-ONE, 0, 2 * ONE, 90000 * ONE, 95000 * ONE, 100000 * ONE}

StatBalances == {3 * ONE, 100000 * ONE}

StatsInit ==
  /\ snapshots = <<>>
  /\ \E b \in StatBalances :
       stats = [initial_balance |-> b, computed |-> FALSE, max_drawdown |-> 0]
  /\ account = NewAccount(stats.initial_balance, ZeroFees)
  /\ trades = <<>>
  /\ ProbeIdle
  /\ RunnerIdle
  /\ RegistryIdle

\* An AccountSnapshot row of the task; the rows are read back in no
\* particular order of time
RecordSnapshot(timestamp, total_value) ==
  /\ ~stats.computed
  /\ Len(snapshots) < MaxSnapshots
  /\ \A k \in DOMAIN snapshots : snapshots[k].timestamp # timestamp
  /\ snapshots' = Append(snapshots,
                         [timestamp |-> timestamp, total_value |-> total_value])
  /\ UNCHANGED <<stats, bookVars, probeVars, runVars, registry>>

\* calculate_backtest_stats: "max_drawdown"
ComputeStats ==
  /\ ~stats.computed
  /\ stats' = [stats EXCEPT
                 !.computed = TRUE,
                 !.max_drawdown =
                   calculate_max_drawdown(snapshots, stats.initial_balance)]
  /\ UNCHANGED <<snapshots, bookVars, probeVars, runVars, registry>>

StatsNext ==
  \/ \E timestamp \in 1..MaxSnapshots :
       \E total_value \in StatValues : RecordSnapshot(timestamp, total_value)
  \/ ComputeStats

SpecStats == StatsInit /\ [][StatsNext]_vars

\* The value series of the claim, built without the sort of the code: the
\* initial balance, then the total value of the snapshot that has k - 2
\* earlier snapshots.
NavSeries ==
  [k \in 1..(Len(snapshots) + 1) |->
     IF k = 1 THEN stats.initial_balance
     ELSE LET j == CHOOSE j \in DOMAIN snapshots :
                     Cardinality({i \in DOMAIN snapshots :
                                    snapshots[i].timestamp < snapshots[j].timestamp})
                       = k - 2
          IN snapshots[j].total_value]

RunningPeak(k) ==
  CHOOSE m \in {NavSeries[j] : j \in 1..k} :
    \A j \in 1..k : NavSeries[j] <= m

\* (running peak - value) / running peak at every point of the series with
\* a positive peak, in millionths
DrawdownsOfSeries ==
  {to_dec(RunningPeak(k) - NavSeries[k], RunningPeak(k), 6) :
     k \in {j \in DOMAIN NavSeries : RunningPeak(j) > 0}}

\* C9: maxDrawdown equals the maximum over the series (initial balance,
\* then the snapshots' total values in time order) of (running peak -
\* value) / running peak, to six decimals; it is 0 for a series that never
\* falls below its running peak and 0.10 for snapshots 100,000, 90,000,
\* 95,000 with initial balance 100,000.
C9_MaxDrawdown ==
  stats.computed =>
    /\ \A d \in DrawdownsOfSeries : d <= stats.max_drawdown
    /\ stats.max_drawdown \in DrawdownsOfSeries \cup {0}
    /\ (\A k \in DOMAIN NavSeries : NavSeries[k] = RunningPeak(k))
         => stats.max_drawdown = 0
    /\ NavSeries = <<100000 * ONE, 100000 * ONE, 90000 * ONE, 95000 * ONE>>
         => stats.max_drawdown = 100000

\* The sample series, its snapshots read back latest first
C9_Witness ==
  /\ stats.computed
  /\ stats.initial_balance = 100000 * ONE
  /\ snapshots = <<[timestamp |-> 3, total_value |-> 95000 * ONE],
                   [timestamp |-> 1, total_value |-> 100000 * ONE],
                   [timestamp |-> 2, total_value |-> 90000 * ONE]>>
  /\ stats.max_drawdown = 100000

\* ------------------------------------------------------------------------
\* Specification of the task: the API routes and the runner threads
\* ------------------------------------------------------------------------
MaxRequests == 3

\* A retry loop that runs once more
max_retries_one_more == 3 + 1

\* max_retries of _execute_single_decision
max_retries == 3

valid_statuses == {"PENDING", "RUNNING", "PAUSED", "FAILED"}

\* Worker threads that run_task_thread can start
Threads == {1, 2}

\* A thread that runs no BacktestProcessor.  seen is the Task row as the
\* thread's session last loaded it (status, processed_items).
IdleThread ==
  [pc |-> "idle", i |-> 0, retry |-> 0,
   seen |-> [status |-> "PENDING", processed_items |-> 0]]

Bar(price, response) == [price |-> price, response |-> response]

\* The tasks of the specification: an account and the bars of the task,
\* each with the oracle's answer at that timestamp.  The second bar of the
\* first task makes the agent raise; the second bar of the second task
\* asks for more than the sizer maximum, so its validation fails.
\* end_price is the close of the bar get_price_at_date finds at the end
\* date, 0 when the data has no bar exactly there (the end date of an
\* hourly task is 23:59:59.999999 of its last day).
Scenarios ==
  { [balance |-> 8 * ONE, fees |-> ZeroFees,
     bars |-> << Bar(ONE, OracleSays("BUY", 2 * ONE)),
                 Bar(ONE + 1, OracleRaise),
                 Bar(ONE, OracleSays("SELL", ONE)) >>,
     end_price |-> 0],
    [balance |-> 12 * ONE, fees |-> PercentFees,
     bars |-> << Bar(ONE, OracleSays("SHORT_SELL", 2 * ONE)),
                 Bar(2 * ONE + 1, OracleSays("BUY", 100 * ONE)),
                 Bar(ONE, OracleSays("COVER_SHORT", 2 * ONE)) >>,
     end_price |-> ONE] }

\* Timestamps: the start date of the task, the bar of index i, the end date
start_date == 0

DateOf(i) == i + 1

end_date == Len(script) + 1

\* get_price_at_date(end_date), 0 for None
final_price == (CHOOSE sc \in Scenarios : sc.bars = script).end_price

\* trading_service.create_account_snapshot: the row of the same snapshot_id
\* (timestamp and account) is deleted, the new row carries the total value
\* at the given price.  The rows of a task are kept in order of timestamp.
create_account_snapshot(snaps, acc, current_time, price) ==
  LET new_stock_market_value == QuantizeHalfUp(acc.stock_quantity * price, ONE)
      new_total_value ==
        QuantizeHalfUp(acc.current_balance + new_stock_market_value, 1)
  IN InsertByTimestamp(
       SelectSeq(snaps, LAMBDA row : row.timestamp # current_time),
       [timestamp |-> current_time, total_value |-> new_total_value])

Init ==
  /\ \E sc \in Scenarios :
       /\ script = sc.bars
       /\ account = NewAccount(sc.balance, sc.fees)
  /\ trades = <<>>
  /\ task = [status |-> "PENDING", processed_items |-> 0, total_items |-> 0]
  /\ threads = [t \in Threads |-> IdleThread]
  /\ history = [NoHistory EXCEPT
                 !.executed = [i \in 0..(Len(script) - 1) |-> 0]]
  /\ ProbeIdle
  /\ StatsIdle
  /\ RegistryIdle

\* run_task_thread: the new thread takes the first free slot
FreeThread ==
  CHOOSE t \in Threads :
    /\ threads[t].pc = "idle"
    /\ \A u \in Threads : threads[u].pc = "idle" => t <= u

run_task_thread ==
  /\ \E t \in Threads : threads[t].pc = "idle"
  /\ threads' = [threads EXCEPT ![FreeThread] = [IdleThread EXCEPT !.pc = "initialize"]]

\* POST /task/start
start_task ==
  /\ history.requests < MaxRequests
  /\ task.status # "RUNNING"
  /\ task' = [task EXCEPT !.status = "RUNNING"]
  /\ run_task_thread
  /\ history' = [history EXCEPT !.requests = @ + 1, !.starts = @ + 1]
  /\ UNCHANGED <<script, bookVars, probeVars, statVars, registry>>

\* POST /task/stop
stop_task ==
  /\ history.requests < MaxRequests
  /\ task.status \in {"RUNNING", "PENDING", "PAUSED"}
  /\ task' = [task EXCEPT !.status = "CANCELLED"]
  /\ history' = [history EXCEPT !.requests = @ + 1, !.stops = @ + 1]
  /\ UNCHANGED <<threads, script, bookVars, probeVars, statVars, registry>>

\* POST /task/pause
pause_task ==
  /\ history.requests < MaxRequests
  /\ task.status = "RUNNING"
  /\ task' = [task EXCEPT !.status = "PAUSED"]
  /\ history' = [history EXCEPT !.requests = @ + 1, !.pauses = @ + 1]
  /\ UNCHANGED <<threads, script, bookVars, probeVars, statVars, registry>>

\* POST /task/resume: starts a thread and leaves the status as it is
resume_task ==
  /\ history.requests < MaxRequests
  /\ task.status = "PAUSED"
  /\ run_task_thread
  /\ history' = [history EXCEPT !.requests = @ + 1, !.resumes = @ + 1]
  /\ UNCHANGED <<task, script, bookVars, probeVars, statVars, registry>>

\* _initialize_task and _prepare_account: the status is validated; a
\* PENDING, FAILED or RUNNING task has its rows deleted and its account
\* reset, a PAUSED task keeps them.
_initialize_task(t) ==
  /\ threads[t].pc = "initialize"
  /\ IF task.status \notin valid_statuses
       THEN /\ threads' = [threads EXCEPT ![t].pc = "error"]
            /\ UNCHANGED <<bookVars, snapshots>>
       ELSE /\ threads' = [threads EXCEPT ![t].pc = "prepare_data"]
            /\ IF task.status \in {"PENDING", "FAILED", "RUNNING"}
                 THEN /\ trades' = <<>>
                      /\ snapshots' = <<>>
                      /\ account' = _reset_account(account)
                 ELSE UNCHANGED <<bookVars, snapshots>>
  /\ UNCHANGED <<task, script, history, probeVars, stats, registry>>

\* _prepare_backtest_data: total_items is committed and the row is loaded
\* again for the test of line 196, which decides on the initial snapshot
_prepare_backtest_data(t) ==
  /\ threads[t].pc = "prepare_data"
  /\ task' = [task EXCEPT !.total_items = Len(script)]
  /\ threads' = [threads EXCEPT
                   ![t].pc = "begin",
                   ![t].seen = [status |-> task.status,
                                processed_items |-> task.processed_items]]
  /\ snapshots' = IF task.status \in {"PENDING", "FAILED"}
                    THEN create_account_snapshot(snapshots, account, start_date,
                                                 account.stock_price)
                    ELSE snapshots
  /\ UNCHANGED <<script, history, bookVars, probeVars, stats, registry>>

\* _execute_backtest up to its loop (lines 288-314).  The row is the one
\* loaded at line 196 unless the initial snapshot was committed since
\* (status PENDING or FAILED there), which loads it again.  The commit
\* writes the columns whose value differs from the loaded one, so a
\* processed_items loaded as 0 is not written.  The loop reads the row
\* afresh, so what the thread had seen is dropped here.
_execute_backtest(t) ==
  /\ threads[t].pc = "begin"
  /\ LET reloaded == threads[t].seen.status \in {"PENDING", "FAILED"}
         original_status == IF reloaded THEN task.status
                            ELSE threads[t].seen.status
         processed_items == IF reloaded THEN task.processed_items
                            ELSE threads[t].seen.processed_items
         start_index == IF original_status = "PAUSED" THEN processed_items ELSE 0
     IN /\ task' = [task EXCEPT
                      !.status = IF original_status # "RUNNING"
                                   THEN "RUNNING" ELSE @,
                      !.processed_items =
                        IF /\ original_status \notin {"RUNNING", "PAUSED"}
                           /\ processed_items # 0
                          THEN 0 ELSE @]
        /\ threads' = [threads EXCEPT
                         ![t].i = start_index,
                         ![t].retry = 0,
                         ![t].seen = IdleThread.seen,
                         ![t].pc = IF start_index < Len(script)
                                     THEN "check" ELSE "finalize"]
  /\ UNCHANGED <<script, history, bookVars, probeVars, statVars, registry>>

\* _check_task_status at the top of an iteration; on CANCELLED or PAUSED
\* the loop breaks and _finalize_backtest returns at once
_check_task_status(t) ==
  /\ threads[t].pc = "check"
  /\ IF task.status \in {"CANCELLED", "PAUSED"}
       THEN threads' = [threads EXCEPT ![t] = IdleThread]
       ELSE threads' = [threads EXCEPT ![t].pc = "decide", ![t].retry = 0]
  /\ UNCHANGED <<task, script, history, bookVars, probeVars, statVars, registry>>

\* One pass of the retry loop of _execute_single_decision: a call of
\* make_decision_with_agent, which stores the snapshot of the bar after
\* execute_decision.  A (dict, decision_id) pair ends the loop; the
\* bare dict of a failed validation makes decision.get raise, which the
\* loop catches and retries.
_execute_single_decision(t) ==
  /\ threads[t].pc = "decide"
  /\ \E bar \in {script[threads[t].i + 1]} :
     \E r \in {execute_decision(account, bar.response, bar.price, threads[t].i)} :
     LET attempts == threads[t].retry + 1
         over == r.result = "decision" \/ attempts >= max_retries
         oracle_failed == bar.response.kind = "raise" \/ r.result = "invalid"
     IN /\ account' = r.account
        /\ trades' = trades \o r.trades
        /\ snapshots' = create_account_snapshot(snapshots, r.account,
                                                DateOf(threads[t].i), bar.price)
        /\ threads' = [threads EXCEPT
                         ![t].retry = attempts,
                         ![t].pc = IF over THEN "progress" ELSE "decide"]
        /\ history' = [history EXCEPT
                         !.failed = IF over /\ oracle_failed
                                      THEN @ \cup {threads[t].i} ELSE @,
                         !.executed[threads[t].i] = IF over THEN @ + 1 ELSE @]
  /\ UNCHANGED <<task, script, probeVars, stats, registry>>

\* The progress commit of the loop (lines 328-330)
UpdateProgress(t) ==
  /\ threads[t].pc = "progress"
  /\ task' = [task EXCEPT !.processed_items = threads[t].i + 1]
  /\ threads' = [threads EXCEPT
                   ![t].i = threads[t].i + 1,
                   ![t].retry = 0,
                   ![t].pc = IF threads[t].i + 1 < Len(script)
                               THEN "check" ELSE "finalize"]
  /\ UNCHANGED <<script, history, bookVars, probeVars, statVars, registry>>

\* _finalize_backtest, the status test of line 421
_finalize_backtest(t) ==
  /\ threads[t].pc = "finalize"
  /\ IF task.status \in {"CANCELLED", "PAUSED"}
       THEN threads' = [threads EXCEPT ![t] = IdleThread]
       ELSE threads' = [threads EXCEPT ![t].pc = "final_snapshot"]
  /\ UNCHANGED <<task, script, history, bookVars, probeVars, statVars, registry>>

\* _create_final_snapshot: skipped when there is no price at the end date
_create_final_snapshot(t) ==
  /\ threads[t].pc = "final_snapshot"
  /\ snapshots' = IF final_price # 0
                    THEN create_account_snapshot(snapshots, account, end_date,
                                                 final_price)
                    ELSE snapshots
  /\ threads' = [threads EXCEPT ![t].pc = "stats"]
  /\ UNCHANGED <<task, script, history, bookVars, probeVars, stats, registry>>

\* _calculate_and_update_stats: calculate_backtest_stats over the rows of
\* the task, stored on the task
_calculate_and_update_stats(t) ==
  /\ threads[t].pc = "stats"
  /\ stats' = [initial_balance |-> account.initial_balance,
               computed |-> TRUE,
               max_drawdown |->
                 calculate_max_drawdown(snapshots, account.initial_balance)]
  /\ threads' = [threads EXCEPT ![t].pc = "complete"]
  /\ UNCHANGED <<task, script, history, bookVars, probeVars, snapshots, registry>>

\* A runner that ends its run without the commit of COMPLETED
CompleteTask_without_commit(t) ==
  /\ threads[t].pc = "complete"
  /\ threads' = [threads EXCEPT ![t] = IdleThread]
  /\ UNCHANGED <<task, script, history, bookVars, probeVars, statVars, registry>>

\* _finalize_backtest, the commit of COMPLETED (lines 433-436), after the
\* commits of the final snapshot and of the statistics
CompleteTask(t) ==
  /\ threads[t].pc = "complete"
  /\ task' = [task EXCEPT !.status = "COMPLETED"]
  /\ threads' = [threads EXCEPT ![t] = IdleThread]
  /\ UNCHANGED <<script, history, bookVars, probeVars, statVars, registry>>

\* _handle_execution_error
_handle_execution_error(t) ==
  /\ threads[t].pc = "error"
  /\ task' = [task EXCEPT !.status = "FAILED"]
  /\ threads' = [threads EXCEPT ![t] = IdleThread]
  /\ UNCHANGED <<script, history, bookVars, probeVars, statVars, registry>>

Next ==
  \/ start_task
  \/ stop_task
  \/ pause_task
  \/ resume_task
  \/ \E t \in Threads : _initialize_task(t)
  \/ \E t \in Threads : _prepare_backtest_data(t)
  \/ \E t \in Threads : _execute_backtest(t)
  \/ \E t \in Threads : _check_task_status(t)
  \/ \E t \in Threads : _execute_single_decision(t)
  \/ \E t \in Threads : UpdateProgress(t)
  \/ \E t \in Threads : _finalize_backtest(t)
  \/ \E t \in Threads : _create_final_snapshot(t)
  \/ \E t \in Threads : _calculate_and_update_stats(t)
  \/ \E t \in Threads : CompleteTask(t)
  \/ \E t \in Threads : _handle_execution_error(t)

Spec == Init /\ [][Next]_vars

\* ------------------------------------------------------------------------
\* Specification of the task with runners that are scheduled
\* ------------------------------------------------------------------------
\* The pass of the retry loop as the scheduler sees it: the thread leaves
\* the call of make_decision_with_agent, for the next pass or for the
\* progress commit.  Only _execute_single_decision moves a thread so, and
\* it can whenever the thread is at a pass.
DecisionPassEnds(t) ==
  /\ threads[t].pc = "decide"
  /\ \E pc \in {"decide", "progress"} :
       threads' = [threads EXCEPT ![t].retry = @ + 1, ![t].pc = pc]

\* _calculate_and_update_stats as the scheduler sees it: the thread leaves
\* the computation of the statistics for the commit of COMPLETED
StatisticsEnd(t) ==
  /\ threads[t].pc = "stats"
  /\ threads' = [threads EXCEPT ![t].pc = "complete"]

\* A step of some runner thread.  Every call a runner makes returns, so a
\* runner that can take a step eventually takes it; the requests of the
\* client are under no such obligation.
RunnerStep ==
  \E t \in Threads :
    \/ _initialize_task(t)
    \/ _prepare_backtest_data(t)
    \/ _execute_backtest(t)
    \/ _check_task_status(t)
    \/ DecisionPassEnds(t)
    \/ UpdateProgress(t)
    \/ _finalize_backtest(t)
    \/ _create_final_snapshot(t)
    \/ StatisticsEnd(t)
    \/ CompleteTask(t)
    \/ _handle_execution_error(t)

\* The run over the scenario whose oracle fails at one bar
InitFair ==
  /\ Init
  /\ \E i \in DOMAIN script : script[i].response.kind = "raise"

\* Every runner step changes the record of its thread
SpecFair == InitFair /\ [][Next]_vars /\ WF_threads(RunnerStep)

\* ------------------------------------------------------------------------
\* Specification of the task with a failing database commit
\* ------------------------------------------------------------------------
\* A pass of the retry loop in which the commit of save_trade_record fails
\* (once in a run), for an answer of one leg that the ledger accepts.  The
\* except clause of save_trade_record rolls the session back, which drops
\* the Trade and the pending account update, and swallows the exception;
\* execute_trade goes on and reports success, the HOLD refresh and the
\* snapshot of the bar follow as in every pass.
save_trade_record_fails(t) ==
  /\ threads[t].pc = "decide"
  /\ history.lost = {}
  /\ \E bar \in {script[threads[t].i + 1]} :
       /\ bar.response.kind = "ok"
       /\ validate_trade(account, bar.response.action, bar.response.quantity,
                         bar.price)
       /\ \E actual_actions \in
              {_map_decision_to_actions(account.stock_quantity,
                                        bar.response.action,
                                        bar.response.quantity)} :
            /\ Len(actual_actions) = 1
            /\ actual_actions[1][1] # "HOLD"
            /\ execute_trade(account, actual_actions[1][1], actual_actions[1][2],
                             bar.price, threads[t].i).success
       /\ account' = HoldUpdate(account, bar.price)
       /\ snapshots' = create_account_snapshot(snapshots, account',
                                               DateOf(threads[t].i), bar.price)
  /\ threads' = [threads EXCEPT ![t].retry = @ + 1, ![t].pc = "progress"]
  /\ history' = [history EXCEPT !.lost = {threads[t].i},
                                !.executed[threads[t].i] = @ + 1]
  /\ UNCHANGED <<trades, task, script, probeVars, stats, registry>>

NextFault ==
  \/ Next
  \/ \E t \in Threads : save_trade_record_fails(t)

SpecFault == Init /\ [][NextFault]_vars

\* ------------------------------------------------------------------------
\* Specification of the server: several tasks and the accounts they name
\* ------------------------------------------------------------------------
MaxTasks == 3

\* account_id values a create request may carry
AccountIds == {1, 2}

TasksInit ==
  /\ registry = <<>>
  /\ account = NewAccount(8 * ONE, ZeroFees)
  /\ trades = <<>>
  /\ ProbeIdle
  /\ RunnerIdle
  /\ StatsIdle

\* POST /task/create: the account of the request is created if it does not
\* exist and used as it is otherwise; the task starts PENDING
create_task(account_id) ==
  /\ Len(registry) < MaxTasks
  /\ registry' = Append(registry, [account_id |-> account_id,
                                   status |-> "PENDING"])
  /\ UNCHANGED <<bookVars, probeVars, runVars, statVars>>

\* POST /task/start for task k: refused only if that task is RUNNING
StartTask(k) ==
  /\ registry[k].status # "RUNNING"
  /\ registry' = [registry EXCEPT ![k].status = "RUNNING"]
  /\ UNCHANGED <<bookVars, probeVars, runVars, statVars>>

\* POST /task/stop for task k
StopTask(k) ==
  /\ registry[k].status \in {"RUNNING", "PENDING", "PAUSED"}
  /\ registry' = [registry EXCEPT ![k].status = "CANCELLED"]
  /\ UNCHANGED <<bookVars, probeVars, runVars, statVars>>

\* POST /task/pause for task k
PauseTask(k) ==
  /\ registry[k].status = "RUNNING"
  /\ registry' = [registry EXCEPT ![k].status = "PAUSED"]
  /\ UNCHANGED <<bookVars, probeVars, runVars, statVars>>

\* The runner of task k reaches the end of _finalize_backtest
FinishTask(k) ==
  /\ registry[k].status = "RUNNING"
  /\ registry' = [registry EXCEPT ![k].status = "COMPLETED"]
  /\ UNCHANGED <<bookVars, probeVars, runVars, statVars>>

TasksNext ==
  \/ \E account_id \in AccountIds : create_task(account_id)
  \/ \E k \in DOMAIN registry : StartTask(k)
  \/ \E k \in DOMAIN registry : StopTask(k)
  \/ \E k \in DOMAIN registry : PauseTask(k)
  \/ \E k \in DOMAIN registry : FinishTask(k)

SpecTasks == TasksInit /\ [][TasksNext]_vars

\* ------------------------------------------------------------------------
\* Specification of the trade log: the tasks of one account, run one after
\* another, and the trade rows they leave
\* ------------------------------------------------------------------------
MaxLogTasks == 2

\* Bars of one task; the bar dates of a task are start_date,
\* start_date + 1, ...
BarsPerTask == 2

\* start_date values a create request may carry
StartDates == {0, BarsPerTask}

\* open_id of a row that names no opening trade
None == <<>>

\* The lookup of save_trade_record: the rows of the account with the
\* opening action of the side and open_id NULL, latest trade_time first;
\* rows of equal trade_time come in an order the query does not fix.
\* Every row of this specification is of the one account and symbol.
OpenTradeIds(trs, action) ==
  IF action \notin {"SELL", "COVER_SHORT"} THEN {None}
  ELSE
    LET opening == IF action = "SELL" THEN "BUY" ELSE "SHORT_SELL"
        found == {j \in DOMAIN trs : /\ trs[j].trade_action = opening
                                     /\ trs[j].open_id = None}
        first == {j \in found :
                    \A i \in found : trs[i].trade_time <= trs[j].trade_time}
    IN IF found = {} THEN {None} ELSE {trs[j].trade_id : j \in first}

\* save_trade_record for the executed legs of one decision, leg by leg:
\* the tables the commits can leave
RECURSIVE SaveLegs(_, _, _, _)
SaveLegs(trs, rows, task_id, order_id) ==
  IF rows = <<>> THEN {trs}
  ELSE UNION
    { SaveLegs(Append(trs, Head(rows) @@ [trade_id |-> <<order_id, Len(rows)>>,
                                          task_id |-> task_id,
                                          open_id |-> open_id]),
               Tail(rows), task_id, order_id) :
        open_id \in OpenTradeIds(trs, Head(rows).trade_action) }

LogInit ==
  /\ market \in {m \in Markets : m.fees = ZeroFees /\ m.balance = 8 * ONE}
  /\ account = NewAccount(market.balance, market.fees)
  /\ trades = <<>>
  /\ lastOps = <<>>
  /\ prevOps = <<>>
  /\ lastQuery = NoQuery
  /\ allMax = TRUE
  /\ decisions = 0
  /\ RunnerIdle
  /\ StatsIdle
  /\ RegistryIdle

\* POST /task/create on the account: the task starts PENDING
LogCreate(start) ==
  /\ Len(registry) < MaxLogTasks
  /\ registry' = Append(registry, [status |-> "PENDING", start_date |-> start,
                                   processed_items |-> 0])
  /\ UNCHANGED <<bookVars, probeVars, runVars, statVars>>

\* Start of task k while no other task runs: _cleanup_task_data deletes
\* the rows of this task only, _reset_account resets the shared account
LogStart(k) ==
  /\ registry[k].status = "PENDING"
  /\ \A j \in DOMAIN registry : registry[j].status # "RUNNING"
  /\ registry' = [registry EXCEPT ![k].status = "RUNNING",
                                  ![k].processed_items = 0]
  /\ trades' = SelectSeq(trades, LAMBDA row : row.task_id # k)
  /\ account' = _reset_account(account)
  /\ UNCHANGED <<probeVars, runVars, statVars>>

\* One iteration of task k: the decision at its next bar, every executed
\* leg saved with trade_time = the date of the bar
LogDecision(k, action, quantity, price) ==
  /\ registry[k].status = "RUNNING"
  /\ registry[k].processed_items < BarsPerTask
  /\ \E r \in {execute_decision(account, OracleSays(action, quantity), price,
                                registry[k].start_date
                                  + registry[k].processed_items)} :
       /\ account' = r.account
       /\ trades' \in SaveLegs(trades, r.trades, k, decisions)
  /\ registry' = [registry EXCEPT ![k].processed_items = @ + 1]
  /\ decisions' = decisions + 1
  /\ UNCHANGED <<lastOps, prevOps, lastQuery, allMax, market, runVars, statVars>>

\* The runner of task k behind its last bar
LogFinish(k) ==
  /\ registry[k].status = "RUNNING"
  /\ registry[k].processed_items = BarsPerTask
  /\ registry' = [registry EXCEPT ![k].status = "COMPLETED"]
  /\ UNCHANGED <<bookVars, probeVars, runVars, statVars>>

LogNext ==
  \/ \E start \in StartDates : LogCreate(start)
  \/ \E k \in DOMAIN registry : LogStart(k)
  \/ \E k \in DOMAIN registry :
       \E price \in market.prices :
         \E action \in TradeActions :
           \E quantity \in market.quantities :
             LogDecision(k, action, IF action = "HOLD" THEN 0 ELSE quantity, price)
  \/ \E k \in DOMAIN registry : LogFinish(k)

SpecLog == LogInit /\ [][LogNext]_vars

\* ------------------------------------------------------------------------
\* Claims about the task
\* ------------------------------------------------------------------------
AllIdle == \A t \in Threads : threads[t].pc = "idle"

\* _execute_single_decision run to its end at one bar: the attempts of the
\* retry loop from attempt number retry on, on account acc
RECURSIVE SingleDecisionRun(_, _, _, _)
SingleDecisionRun(acc, bar, index, retry) ==
  LET r == execute_decision(acc, bar.response, bar.price, index)
  IN IF r.result = "decision" \/ retry + 1 >= max_retries
       THEN [account |-> r.account, trades |-> r.trades]
       ELSE LET rest == SingleDecisionRun(r.account, bar, index, retry + 1)
            IN [account |-> rest.account, trades |-> r.trades \o rest.trades]

\* The run that is never paused: every bar from index on, once, in order
RECURSIVE UnpausedRun(_, _, _)
UnpausedRun(acc, bars, index) ==
  IF index >= Len(bars) THEN [account |-> acc, trades |-> <<>>]
  ELSE LET one == SingleDecisionRun(acc, bars[index + 1], index, 0)
           rest == UnpausedRun(one.account, bars, index + 1)
       IN [account |-> rest.account, trades |-> one.trades \o rest.trades]

\* The ledger part of an account: cash, quantity, lots, fees paid
LedgerOf(a) ==
  [current_balance |-> a.current_balance, stock_quantity |-> a.stock_quantity,
   long_positions |-> a.long_positions, short_positions |-> a.short_positions,
   total_fees |-> a.total_fees]

\* C1: a run that is started, paused once and resumed once and reaches
\* COMPLETED has the same final ledger and the same trade log, in the same
\* order, as the run of the same task that is never paused, whatever the
\* interleaving of the pause and the resume with the loop.
C1_PauseResumeEqualsUnpausedRun ==
  (/\ history.starts = 1 /\ history.pauses = 1 /\ history.resumes = 1
   /\ history.stops = 0
   /\ task.status = "COMPLETED"
   /\ AllIdle)
    => LET ref == UnpausedRun(NewAccount(account.initial_balance, account),
                              script, 0)
       IN /\ LedgerOf(account) = LedgerOf(ref.account)
          /\ trades = ref.trades

\* C7: when the oracle fails on every attempt at a timestamp (it raises, or
\* its answer fails validation), the runner makes at most 3 attempts there,
\* records no trade for that timestamp, advances processed by one per
\* timestamp and goes on with the next one; the run ends COMPLETED with
\* every timestamp processed, never FAILED.  (A run that is started and
\* neither paused, resumed nor stopped.)
C7_OracleFailureSkipsTimestamp ==
  /\ \A t \in Threads : threads[t].retry <= 3
  /\ (history.starts = 1 /\ history.requests = 1) =>
       /\ task.status # "FAILED"
       /\ \A i \in history.failed :
            /\ \A k \in DOMAIN trades : trades[k].trade_time # i
            /\ \A t \in Threads :
                 (threads[t].pc # "idle" /\ threads[t].i > i)
                   => task.processed_items >= i + 1
       /\ \A t \in Threads :
            threads[t].pc \in {"check", "decide", "progress"}
              => task.processed_items = threads[t].i
       /\ AllIdle => /\ task.status = "COMPLETED"
                     /\ task.processed_items = Len(script)

\* A finished run whose second bar failed validation on all three attempts
\* and whose third bar traded.
C7_Witness ==
  /\ history.starts = 1 /\ history.requests = 1
  /\ AllIdle
  /\ task.status = "COMPLETED"
  /\ task.processed_items = 3
  /\ script[2].response.kind = "ok"
  /\ 1 \in history.failed
  /\ \E k \in DOMAIN trades : trades[k].trade_time = 2

\* The status changes the specification allows
AllowedTransitions ==
  { <<"PENDING", "RUNNING">>, <<"RUNNING", "PAUSED">>, <<"PAUSED", "RUNNING">>,
    <<"RUNNING", "COMPLETED">>, <<"RUNNING", "CANCELLED">>,
    <<"PAUSED", "CANCELLED">>, <<"RUNNING", "FAILED">>, <<"FAILED", "RUNNING">> }

\* C10: the task status changes only along PENDING->RUNNING,
\* RUNNING->PAUSED, PAUSED->RUNNING, RUNNING->COMPLETED, RUNNING->CANCELLED,
\* PAUSED->CANCELLED, RUNNING->FAILED and FAILED->RUNNING; COMPLETED and
\* CANCELLED are terminal.
C10_StatusTransitions ==
  [][task.status' # task.status
       => <<task.status, task.status'>> \in AllowedTransitions]_vars

\* C11: the ledger mutation and the Trade of decision timestamp index i are
\* never committed while processed_items <= i: every committed trade
\* belongs to a timestamp the checkpoint has already passed.
C11_IterationIsOneAtomicUnit ==
  \A k \in DOMAIN trades : trades[k].trade_time < task.processed_items

\* The threads that are executing iterations of the loop
Iterating == {t \in Threads : threads[t].pc \in {"check", "decide", "progress"}}

\* C12: under any interleaving of start, pause, resume and cancel requests
\* at most one runner is executing iterations for the task at any time.
C12_AtMostOneRunner ==
  Cardinality(Iterating) <= 1

\* C15: a trade rejected by validation or by the ledger is a skipped
\* decision that is not retried: the oracle is asked once for that
\* timestamp, the status does not become FAILED and the runner goes on.
\* (A run that is started and neither paused, resumed nor stopped; every
\* answer of kind "ok" is either executed or rejected.)
C15_RejectionIsNotRetried ==
  (history.starts = 1 /\ history.requests = 1) =>
    /\ task.status # "FAILED"
    /\ \A t \in Threads :
         (/\ threads[t].pc \in {"decide", "progress"}
          /\ script[threads[t].i + 1].response.kind = "ok")
           => threads[t].retry <= 1

\* C17: when start takes a PENDING task to RUNNING, then before the first
\* iteration executes the task has no trades, the account is at its initial
\* balance and flat with no lots, processed_items is 0, total_items is the
\* number of decision timestamps and a snapshot at the start date exists.
C17_StartBootstrapsTheRun ==
  \A t \in Threads :
    (/\ history.starts = 1 /\ history.requests = 1
     /\ threads[t].pc = "decide" /\ threads[t].i = 0 /\ threads[t].retry = 0)
      => /\ trades = <<>>
         /\ account.current_balance = account.initial_balance
         /\ account.stock_quantity = 0
         /\ account.margin_used = 0
         /\ account.long_positions = <<>> /\ account.short_positions = <<>>
         /\ task.processed_items = 0
         /\ task.total_items = Len(script)
         /\ \E k \in DOMAIN snapshots : snapshots[k].timestamp = start_date

\* C18: across any number of pause/resume cycles of a run that is started
\* once and never stopped, every decision timestamp index is processed
\* exactly once before the task is COMPLETED.
C18_EveryIndexExactlyOnce ==
  (/\ history.starts = 1 /\ history.stops = 0
   /\ task.status = "COMPLETED")
    => \A i \in DOMAIN history.executed : history.executed[i] = 1

\* The final snapshot of the task, if there is one
FinalSnapshots == SelectSeq(snapshots, LAMBDA row : row.timestamp = end_date)

\* C19: once a pause or a stop has set the status of a RUNNING task to
\* PAUSED or CANCELLED, the runner writes no final snapshot and no
\* statistics and never overwrites that status with COMPLETED.  (One
\* runner: the task is started once and never resumed.)
C19_StopAndPauseAreFinal ==
  [][(/\ history.starts = 1 /\ history.resumes = 0
      /\ task.status \in {"CANCELLED", "PAUSED"})
       => /\ task.status' # "COMPLETED"
          /\ stats' = stats
          /\ FinalSnapshots' = FinalSnapshots]_vars

\* C20: whenever the status is COMPLETED, a final snapshot at the end date
\* exists, also when no bar exists exactly at the end date, and the
\* statistics have been computed.  (A run that is started and neither
\* paused, resumed nor stopped.)
C20_CompletedHasFinalSnapshot ==
  (history.starts = 1 /\ history.requests = 1 /\ task.status = "COMPLETED")
    => /\ FinalSnapshots # <<>>
       /\ stats.computed

\* The latest oracle answer was one that validation must reject
AnswerToReject ==
  /\ lastQuery.kind = "ok"
  /\ lastQuery.action # "HOLD"
  /\ \/ lastQuery.price <= 0
     \/ lastQuery.quantity <= 0
     \/ lastQuery.quantity > lastQuery.max

\* C14: an oracle answer with a non-HOLD action at a price <= 0, with a
\* quantity <= 0 or with a quantity above the sizer maximum for its action
\* is rejected before any trade is applied: the only ledger operation is
\* the HOLD refresh, no Trade is created, and cash, quantity, lots and
\* total fees are unchanged.
C14_InvalidAnswerIsRejected ==
  AnswerToReject =>
    /\ Len(lastOps) = 1
    /\ lastOps[1].action = "HOLD"
    /\ LedgerOf(account) = LedgerOf(lastOps[1].pre)
    /\ \A k \in DOMAIN trades : trades[k].trade_time # decisions - 1

\* An answer above the sizer maximum, at a positive price, on an account
\* that holds a position and has traded before
C14_Witness ==
  /\ AnswerToReject
  /\ lastQuery.price > 0
  /\ lastQuery.quantity > lastQuery.max
  /\ lastQuery.max > 0
  /\ account.stock_quantity # 0
  /\ trades # <<>>

\* C16: a persistence failure while committing a part of an iteration sets
\* the task status to FAILED and leaves processed_items at its last
\* committed value: the run never continues past the failed commit.  (A run
\* that is started and neither paused, resumed nor stopped; lost holds the
\* index of the iteration whose commit failed.)
C16_PersistenceFailureFailsTheTask ==
  (history.starts = 1 /\ history.requests = 1) =>
    \A i \in history.lost :
      /\ task.processed_items <= i
      /\ \/ task.status = "FAILED"
         \/ \E t \in Threads : threads[t].pc = "error"

\* C13: no two tasks that are RUNNING at the same time are bound to the
\* same account.
C13_RunningTasksShareNoAccount ==
  \A j, k \in DOMAIN registry :
    (/\ j # k
     /\ registry[j].status = "RUNNING"
     /\ registry[k].status = "RUNNING")
      => registry[j].account_id # registry[k].account_id

\* The translation table of the specification: the action list for a
\* position of cur units (0 flat, > 0 long, < 0 short), an intent and qty
TranslationTable(cur, intent, qty) ==
  CASE intent = "HOLD" -> << <<"HOLD", 0>> >>
    [] intent # "HOLD" /\ cur = 0 /\ intent \in {"BUY", "SHORT_SELL"} ->
         << <<intent, qty>> >>
    [] intent # "HOLD" /\ cur = 0 /\ intent \in {"SELL", "COVER_SHORT"} ->
         << <<"HOLD", 0>> >>
    [] cur > 0 /\ intent \in {"BUY", "COVER_SHORT"} -> << <<"BUY", qty>> >>
    [] cur > 0 /\ intent \in {"SELL", "SHORT_SELL"} ->
         << <<"SELL", Min(qty, cur)>> >>
           \o (IF qty > cur THEN << <<"SHORT_SELL", qty - cur>> >> ELSE <<>>)
    [] cur < 0 /\ intent \in {"BUY", "COVER_SHORT"} ->
         << <<"COVER_SHORT", Min(qty, -cur)>> >>
           \o (IF qty > -cur THEN << <<"BUY", qty + cur>> >> ELSE <<>>)
    [] cur < 0 /\ intent \in {"SELL", "SHORT_SELL"} ->
         << <<"SHORT_SELL", qty>> >>

\* Quantities to translate at an account: around the size of its position
TableQuantities(cur) ==
  {q \in {1, Abs(cur) - 1, Abs(cur), Abs(cur) + 1, 2 * ONE, 100 * ONE} : q > 0}

\* The legs the latest decision executed, without the closing HOLD refresh
LegsExecuted == SubSeq(lastOps, 1, Len(lastOps) - 1)

\* C21: for every current side, every intent and every quantity qty > 0 the
\* executor produces exactly the action list of the translation table; the
\* closing leg precedes the opening leg and the quantities of the trading
\* legs sum to qty.  The legs a decision executes are the table's list for
\* the position before the decision, up to the first leg the ledger refuses.
C21_TranslationTable ==
  /\ \A intent \in TradeActions :
       \A qty \in TableQuantities(account.stock_quantity) :
         LET legs == _map_decision_to_actions(account.stock_quantity, intent, qty)
         IN /\ legs = TranslationTable(account.stock_quantity, intent, qty)
            /\ Len(legs) = 2 => /\ legs[1][1] \in {"SELL", "COVER_SHORT"}
                                /\ legs[2][1] \in {"SHORT_SELL", "BUY"}
                                /\ legs[1][2] + legs[2][2] = qty
            /\ (Len(legs) = 1 /\ legs[1][1] # "HOLD") => legs[1][2] = qty
  /\ Len(lastOps) >= 2 =>
       LET table == TranslationTable(lastOps[1].pre.stock_quantity,
                                     lastQuery.action, lastQuery.quantity)
       IN /\ Len(LegsExecuted) <= Len(table)
          /\ \A k \in DOMAIN LegsExecuted :
               /\ LegsExecuted[k].action = table[k][1]
               /\ LegsExecuted[k].quantity = table[k][2]
          /\ (\A k \in DOMAIN LegsExecuted : ~LegsExecuted[k].raised)
               => Len(LegsExecuted) = Len(table)

\* A reversal of a short position: COVER_SHORT of the whole short, then BUY
\* of the rest, both accepted
C21_Witness ==
  /\ Len(lastOps) = 3
  /\ lastQuery.action \in {"BUY", "COVER_SHORT"}
  /\ lastOps[1].pre.stock_quantity < 0
  /\ lastOps[1].action = "COVER_SHORT" /\ ~lastOps[1].raised
  /\ lastOps[1].quantity = -lastOps[1].pre.stock_quantity
  /\ lastOps[2].action = "BUY" /\ ~lastOps[2].raised
  /\ lastOps[2].quantity = lastQuery.quantity - lastOps[1].quantity

\* The condition under which the specification has a ledger operation
\* fail, on the account before the call
MustFail(op) ==
  LET amount == TradeAmount(op.quantity, op.price)
  IN CASE op.action = "BUY" ->
            op.pre.current_balance < amount + op.total_fees
       [] op.action = "SELL" -> op.quantity > op.pre.stock_quantity
       [] op.action = "SHORT_SELL" ->
            op.pre.available_balance - op.pre.margin_used
              < amount + op.total_fees
       [] op.action = "COVER_SHORT" -> op.quantity > Abs(op.pre.stock_quantity)
       [] OTHER -> FALSE

\* C22: a BUY with cash < qty*price + fees, a SELL with qty > quantity, a
\* SHORT_SELL whose margin headroom (available cash - margin used) is below
\* qty*price + fees and a COVER_SHORT with qty > |quantity| each fail, leave
\* every account field as it was before the call and create no Trade.
C22_RejectedLegChangesNothing ==
  \A k \in DOMAIN lastOps :
    /\ MustFail(lastOps[k]) => lastOps[k].raised
    /\ lastOps[k].raised =>
         /\ lastOps[k].post = lastOps[k].pre
         /\ \A j \in DOMAIN trades : trades[j].trade_time # decisions - 1

\* The trades the latest decision recorded
TradesOfDecision ==
  SelectSeq(trades, LAMBDA row : row.trade_time = decisions - 1)

\* C23: an intent that maps to two ledger actions is all-or-nothing: either
\* both legs are applied and both Trades recorded, or neither is; when the
\* second leg fails, the ledger is as before the first leg and the decision
\* has recorded no Trade.
C23_TwoLegsAllOrNothing ==
  (Len(lastOps) = 3 /\ lastOps[1].action # "HOLD") =>
    \/ /\ ~lastOps[1].raised /\ ~lastOps[2].raised
       /\ Len(TradesOfDecision) = 2
    \/ /\ LedgerOf(account) = LedgerOf(lastOps[1].pre)
       /\ TradesOfDecision = <<>>

\* C24: when the account is LONG with quantity L, the maximum for a
\* reversal to short is at least L at every price > 0 and under every fee
\* schedule, so a SELL of any quantity q with 0 < q <= L passes validation.
C24_LongCanAlwaysSell ==
  account.stock_quantity > 0 =>
    \A price \in {p \in market.prices : p > 0} :
      /\ calculate_max_reverse_short_quantity(account, price)
           >= account.stock_quantity
      /\ \A q \in {1, account.stock_quantity} :
           validate_trade(account, "SELL", q, price)


\* The outcome of the ledger for one leg at a bar price
LegOutcome(acc, action, quantity, price) ==
  execute_trade(acc, action, quantity, price, decisions).op

\* C25: at every reachable account and every positive price a BUY of
\* exactly the sizer's direct-buy maximum and a SHORT_SELL of exactly its
\* direct-short maximum, when positive, are accepted by the ledger with
\* the real fee of that quantity
C25_SizerMaximumIsAffordable ==
  \A price \in {p \in market.prices : p > 0} :
    /\ account.stock_quantity >= 0 =>
         \A q \in {calculate_max_direct_buy_quantity(
                     account, price, account.available_balance)} :
           q > 0 => ~LegOutcome(account, "BUY", q, price).raised
    /\ account.stock_quantity <= 0 =>
         \A q \in {calculate_max_direct_short_sell_quantity(account, price)} :
           q > 0 => ~LegOutcome(account, "SHORT_SELL", q, price).raised


\* The row a closing row names, if the table has it
OpenRowsOf(row) == {j \in DOMAIN trades : trades[j].trade_id = row.open_id}

\* C26: a BUY or SHORT_SELL row has no open_id; the open_id of a SELL
\* (COVER_SHORT) row names a BUY (SHORT_SELL) row of the same task saved
\* before it, the latest one, and no closing row of the task between the
\* two left the account flat
C26_OpenIdNamesLiveOpeningTrade ==
  \A c \in DOMAIN trades :
    IF trades[c].trade_action \in {"BUY", "SHORT_SELL"}
      THEN trades[c].open_id = None
      ELSE \A o \in OpenRowsOf(trades[c]) :
             /\ o < c
             /\ trades[o].task_id = trades[c].task_id
             /\ trades[o].trade_action =
                  (IF trades[c].trade_action = "SELL" THEN "BUY" ELSE "SHORT_SELL")
             /\ \A j \in (o + 1)..(c - 1) :
                  trades[j].task_id = trades[c].task_id =>
                    /\ trades[j].trade_action # trades[o].trade_action
                    /\ trades[j].remaining_quantity_after # 0


\* The accepted trades of the last decision whose quantity and price are
\* whole quanta, so that quantity * price is exact
ExactTrades ==
  {k \in DOMAIN lastOps : /\ lastOps[k].action # "HOLD"
                          /\ ~lastOps[k].raised
                          /\ lastOps[k].quantity % PRECISION_8 = 0
                          /\ lastOps[k].price % PRECISION_8 = 0}

\* total_value after a trade is total_value of the account before it,
\* marked at the price of the trade, less the fees charged
ValueConserved ==
  \A k \in ExactTrades :
    lastOps[k].post.total_value =
      HoldUpdate(lastOps[k].pre, lastOps[k].price).total_value
        - lastOps[k].total_fees

\* The cash a trade computes before the floor at 0
CashNeverClamped ==
  \A k \in ExactTrades :
    new_balance(lastOps[k].action, lastOps[k].pre.current_balance,
                TradeAmount(lastOps[k].quantity, lastOps[k].price),
                lastOps[k].total_fees) >= 0

\* The available balance before the floor at 0
AvailableNeverClamped ==
  account.stock_quantity < 0 =>
    account.current_balance - Abs(account.stock_market_value) >= 0

\* C27: an accepted trade of exact amount changes total_value by the fees
\* only, and neither the floor of the cash nor the floor of the available
\* balance ever changes a value
C27_NoMoneyCreatedOrDestroyed ==
  /\ ValueConserved
  /\ CashNeverClamped
  /\ AvailableNeverClamped


\* The fees of the recorded trades, added up
RECURSIVE FeesRecorded(_)
FeesRecorded(rows) ==
  IF rows = <<>> THEN 0 ELSE Head(rows).total_fees + FeesRecorded(Tail(rows))

\* C28: in every committed state the cumulative fees of the account are the
\* sum of the fees of the trades recorded for the task, also after a
\* restart that wiped the trades
C28_FeesMatchRecordedTrades ==
  account.total_fees = FeesRecorded(trades)


\* A step in which a runner leaves the head of _execute_backtest having
\* found the task PENDING or FAILED: the fresh start of a run
FreshStart ==
  \E t \in Threads :
    /\ threads[t].pc = "begin"
    /\ threads'[t].pc # "begin"
    /\ task.status \in {"PENDING", "FAILED"}

\* C29: processed_items stays within 0..total_items; a step that changes it
\* adds exactly 1, or sets it to 0 at the fresh start of a run from PENDING
\* or FAILED
C29_ProgressCountsIterations ==
  [][/\ 0 <= task'.processed_items
     /\ task'.processed_items <= task'.total_items
     /\ task'.processed_items # task.processed_items =>
          \/ task'.processed_items = task.processed_items + 1
          \/ task'.processed_items = 0 /\ FreshStart]_vars


\* C30: with runners that are scheduled, a RUNNING task is eventually
\* COMPLETED or FAILED unless it is paused or cancelled, a paused or
\* cancelled task is eventually without an active runner, and the task is
\* never RUNNING for ever with no runner at work
C30_RunsEndAndRunnersLeave ==
  /\ (task.status = "RUNNING") ~>
       (task.status \in {"COMPLETED", "FAILED", "PAUSED", "CANCELLED"})
  /\ (task.status \in {"PAUSED", "CANCELLED"}) ~> AllIdle
  /\ ~<>[](task.status = "RUNNING" /\ AllIdle)

\* A run that was stopped or paused on its way has ended and left no runner
C30_Witness ==
  /\ AllIdle
  /\ history.starts > 0
  /\ history.stops + history.pauses > 0
  /\ task.status \in {"COMPLETED", "FAILED", "PAUSED", "CANCELLED"}
  /\ task.processed_items > 0

====
